---- MODULE Spec2Model ----
(***************************************************************************)
(* Model of the offscreen-canvas demo: the main-thread Controller          *)
(* (src/index.js), the FIFO message channel to the worker, and the         *)
(* Renderer running in the worker (src/worker.js).                         *)
(*                                                                         *)
(* Every event-loop task (an event handler, an animation-frame callback)   *)
(* runs to completion and is one action.  The only place where a handler   *)
(* is suspended is the blocking alert() call: the main thread then waits   *)
(* in ctrlPc until the dialog is dismissed, while the worker keeps         *)
(* running.                                                                *)
(***************************************************************************)
EXTENDS Integers, Sequences, FiniteSets, TLC

\* ---------------------------------------------------------------- bounds
MaxMeasures == 2    \* measurement events raised over a Controller lifetime
MaxSize == 2        \* distinct element sizes the layout provider reports
MaxFrames == 3      \* frames drawn before the model stops counting
MaxTime == 3        \* wall-clock readings, in quarter periods of the easing
MaxCount == 2       \* largest point count written out in the page's query string
MaxIndex == 9       \* point indices whose fill colour is followed
MaxStray == 1       \* queries of the colour scale made by another caller than the fill pass
MaxPosts == 2       \* messages posted to the worker by another caller than index.js

\* The sizes a measurement can report ({width, height} of the element).
Details == { [width |-> 4 * n, height |-> 3 * n] : n \in 1..MaxSize }

\* Readings of Date.now(), in units of a quarter period of sin(t / 1e3).
Times == 0..MaxTime

VARIABLES
    supported,      \* canvas.transferControlToOffscreen exists in this runtime
    canvas,         \* the canvas element's bitmap size (its width/height attributes)
    worker,         \* index.js `worker`: "null" or "worker"
    workersCreated, \* number of Worker objects constructed
    ctrlPc,         \* "idle", or the alert() the main thread is blocked in
    ctrlHandles,    \* usable (not detached) OffscreenCanvas objects of the main thread
    ctrlErrors,     \* uncaught errors thrown by main-thread handlers
    warnings,       \* "OffscreenCanvas isn't supported" alerts shown
    measures,       \* measurement events dispatched so far
    lastDetail,     \* detail of the latest measurement event
    redrawRequested,\* a requested redraw (hence a measurement) is pending
    timestamp,      \* #timestamp innerText
    surfaceSent,    \* {offscreenCanvas} messages posted to the worker
    sizeSent,       \* {width, height} messages posted to the worker
    toWorker,       \* messages posted to the worker and not yet handled (FIFO)
    workerState,    \* "none", "starting" (script running), "listening"
    context,        \* series.context(): NoContext or the WebGL context
    xDomain,        \* xScale.domain()
    yDomain,        \* yScale.domain()
    frames,         \* completed calls of render()
    rafPending,     \* animation-frame callbacks the worker has pending
    workerErrors,   \* uncaught errors thrown by the worker's message handler
    posted,         \* latest message the worker posted to the main thread
    toMain,         \* messages of the worker not yet dispatched on the main thread
    query,          \* the query string the page was opened with
    hash,           \* location.hash of the worker (the fragment of its URL)
    data,           \* worker.js `data`: the number of points of the dataset
    previousData,   \* length of the data the series last sent to the GPU
    uploads,        \* transfers of the data to the GPU
    colorDomain,    \* colorScale.domain(): the indices in the order they were first queried
    strayQueries,   \* queries of colorScale made outside the fill pass
    frameSize,      \* width and height of the viewport the latest frame was drawn with
    injected        \* messages posted to the worker by another caller than index.js

vars == << supported, canvas, worker, workersCreated, ctrlPc, ctrlHandles,
           ctrlErrors, warnings, measures, lastDetail, redrawRequested,
           timestamp, surfaceSent, sizeSent, toWorker, workerState, context,
           xDomain, yDomain, frames, rafPending, workerErrors, posted,
           toMain, query, hash, data, previousData, uploads, colorDomain,
           strayQueries, frameSize, injected >>

ctrlVars == << worker, workersCreated, ctrlPc, ctrlHandles, ctrlErrors,
               warnings, measures, lastDetail, redrawRequested, timestamp,
               surfaceSent, sizeSent, hash >>

rendererVars == << context, xDomain, yDomain, frames, rafPending,
                   workerErrors, posted, toMain, frameSize >>

dataVars == << data, previousData, uploads, colorDomain >>

\* ------------------------------------------------------------ JS values
\* A message is a record holding only the properties that were set; a
\* property that is absent destructures to undefined.
Has(m, f) == f \in DOMAIN m

\* series.context() before any context was set.
NoContext == [null |-> TRUE]

\* The drawing surface obtained from the canvas element: it inherits the
\* element's bitmap size.
Surface == [id |-> "canvas", width |-> canvas.width, height |-> canvas.height]

\* ------------------------------------------------- strings and numbers
\* A string is a sequence of one-character strings.  A number is a record:
\* NaN, or a value kept in tenths (15 is 1.5).
DigitChars == << "0", "1", "2", "3", "4", "5", "6", "7", "8", "9" >>

IsDigit(c) == \E i \in 1..Len(DigitChars) : DigitChars[i] = c

DigitValue(c) == (CHOOSE i \in 1..Len(DigitChars) : DigitChars[i] = c) - 1

NaN == [nan |-> TRUE, tenths |-> 0]

Num(tenths) == [nan |-> FALSE, tenths |-> tenths]

\* The longest prefix of s made of digits.
RECURSIVE LeadingDigits(_)
LeadingDigits(s) ==
    IF s = << >> \/ ~IsDigit(Head(s))
    THEN << >>
    ELSE << Head(s) >> \o LeadingDigits(Tail(s))

\* The value of a string of digits.
RECURSIVE DigitsValue(_)
DigitsValue(s) ==
    IF s = << >>
    THEN 0
    ELSE 10 * DigitsValue(SubSeq(s, 1, Len(s) - 1)) + DigitValue(s[Len(s)])

\* The decimal digits of a natural number.
RECURSIVE NatToString(_)
NatToString(n) ==
    IF n < 10
    THEN << DigitChars[n + 1] >>
    ELSE NatToString(n \div 10) \o << DigitChars[(n % 10) + 1] >>

\* Mutant: the leading character is not removed.
substring0(s) == s

\* String.prototype.substring(1).
substring1(s) == IF s = << >> THEN << >> ELSE Tail(s)

\* index.js:10, Number(string): the whole string must be a decimal literal
\* (sign, digits, at most one fractional digit); the empty string is 0.
Number(s) ==
    LET negative == s # << >> /\ Head(s) = "-"
        body == IF negative THEN Tail(s) ELSE s
        whole == LeadingDigits(body)
        rest == SubSeq(body, Len(whole) + 1, Len(body))
        sign == IF negative THEN -1 ELSE 1
    IN  IF s = << >> THEN Num(0)
        ELSE IF whole = << >> THEN NaN
        ELSE IF rest = << >> THEN Num(sign * 10 * DigitsValue(whole))
        ELSE IF Len(rest) = 2 /\ rest[1] = "." /\ IsDigit(rest[2])
             THEN Num(sign * (10 * DigitsValue(whole) + DigitValue(rest[2])))
        ELSE NaN

\* index.js:10, the number as the template literal writes it.
NumberToString(x) ==
    LET magnitude == IF x.tenths < 0 THEN -x.tenths ELSE x.tenths
    IN  IF x.nan THEN << "N", "a", "N" >>
        ELSE (IF x.tenths < 0 THEN << "-" >> ELSE << >>)
             \o NatToString(magnitude \div 10)
             \o (IF magnitude % 10 = 0
                 THEN << >>
                 ELSE << ".", DigitChars[(magnitude % 10) + 1] >>)

\* worker.js:26, parseInt(string): an optional sign and the leading digits,
\* NaN when there is no digit.
parseInt(s) ==
    LET negative == s # << >> /\ Head(s) = "-"
        body == IF negative THEN Tail(s) ELSE s
        whole == LeadingDigits(body)
    IN  IF whole = << >> THEN NaN
        ELSE Num((IF negative THEN -10 ELSE 10) * DigitsValue(whole))

\* worker.js:26, Array.from({ length }): the length is NaN or negative -> 0,
\* else its integer part.
ArrayFromLength(x) ==
    IF x.nan \/ x.tenths < 0 THEN 0 ELSE x.tenths \div 10

\* index.js:2, the point count the page falls back to.
DefaultCount == 10000

\* The query strings a page is opened with: none, a point count, and
\* strings that are not a count.
Queries ==
    { << >> }
    \cup { << "?" >> \o NatToString(n) : n \in 0..MaxCount }
    \cup { << "?", "a" >>, << "?", "2", "x" >>, << "?", "-", "1" >>,
           << "?", "1", ".", "5" >> }

\* Mutant: no default is set when the query string is absent.
LoadPageNoDefault(q) == q

\* The query strings of the composed specification: the page opened without
\* a count (the default dataset) and with the count 0 (an empty dataset).
PlainQueries == { << >>, << "?", "0" >> }

\* index.js:1-3: a page opened without a query string reloads itself with
\* the default count; location.search once the script has gone past line 3.
LoadPage(q) == IF q = << >> THEN << "?" >> \o NatToString(DefaultCount) ELSE q

LocationSearch == LoadPage(query)

\* index.js:10, the fragment of the URL the worker is created with.
WorkerUrlHash(search) == << "#" >> \o NumberToString(Number(substring1(search)))

\* index.js:1-10, the fragment for each query string, computed once.
WorkerUrlHashOf == [q \in Queries |-> WorkerUrlHash(LoadPage(q))]

\* worker.js:26, the length of the dataset built from the fragment.
DataLength(h) == ArrayFromLength(parseInt(substring1(h)))

\* worker.js:26, the length for each fragment a worker is created with,
\* computed once.
DataLengthOf == [h \in { WorkerUrlHashOf[q] : q \in Queries } |-> DataLength(h)]

\* ------------------------------------------------- Controller (index.js)
\* Mutant: the presence check is dropped.
NeedsWorkerAlways(w) == TRUE

\* Mutant: the block is entered again until the surface has been sent.
NeedsWorkerUntilSent(w) == w = "null" \/ surfaceSent = 0

\* index.js:9, the presence check on the worker handle.
NeedsWorker(w) == w = "null"

\* Mutant: the first message carries the size together with the surface.
SurfaceMessageWithSize(h) == [offscreenCanvas |-> h, width |-> h.width, height |-> h.height]

\* index.js:17, the ownership-transfer message.
SurfaceMessage(h) == [offscreenCanvas |-> h]

\* index.js:19-20, the size message built from the event's detail.
SizeMessage(detail) == [width |-> detail.width, height |-> detail.height]

\* Mutant: the size is posted ahead of the surface.
FirstMessagesSizeFirst(h, detail) == << SizeMessage(detail), SurfaceMessage(h) >>

\* index.js:17-20, the messages of the first measurement, in posting order.
FirstMessages(h, detail) == << SurfaceMessage(h), SizeMessage(detail) >>

\* Mutant: the message is posted without a transfer list.
PostWithoutTransfer(handles, transfer) == handles

\* index.js:17, postMessage(message, transfer): the objects of the transfer
\* list are detached from the sending context.
PostTransfer(handles, transfer) == handles \ transfer

\* Mutant: no redraw is requested after the listener is registered.
NoRequestRedraw == FALSE

\* index.js:1-7 and 22-31: the state once the page script has run.  The
\* listener is registered, a redraw has been requested, the clock display
\* shows the first reading (time is counted from there) and no worker exists.
RequestRedraw == TRUE

Start ==
    /\ supported \in BOOLEAN
    /\ canvas \in Details
    /\ worker = "null"
    /\ workersCreated = 0
    /\ ctrlPc = "idle"
    /\ ctrlHandles = {}
    /\ ctrlErrors = 0
    /\ warnings = 0
    /\ measures = 0
    /\ lastDetail = canvas
    /\ redrawRequested = RequestRedraw
    /\ timestamp = 0
    /\ surfaceSent = 0
    /\ sizeSent = 0
    /\ toWorker = << >>
    /\ workerState = "none"
    /\ context = NoContext
    /\ xDomain = << -500, 500 >>
    /\ yDomain = << -500, 500 >>
    /\ frames = 0
    /\ rafPending = 0
    /\ workerErrors = 0
    /\ posted = "none"
    /\ toMain = 0
    /\ hash = << >>
    /\ data = 0
    /\ previousData = 0
    /\ uploads = 0
    /\ colorDomain = << >>
    /\ strayQueries = 0
    /\ frameSize = << 0, 0 >>
    /\ injected = 0

\* The page opened with one of the plain query strings.
Init == Start /\ query \in PlainQueries

\* The page opened with any of the query strings.
PageInit == Start /\ query \in Queries

\* index.js:8-21, the 'measure' listener, up to its return or to the
\* alert() it blocks in.
MeasureListener(detail) ==
    /\ ctrlPc = "idle"
    /\ measures < MaxMeasures
    /\ measures' = measures + 1
    /\ lastDetail' = detail
    /\ redrawRequested' = FALSE
    /\ IF NeedsWorker(worker)
       THEN /\ worker' = "worker"
            /\ workersCreated' = workersCreated + 1
            /\ workerState' = "starting"
            /\ hash' = WorkerUrlHashOf[query]
            /\ IF ~supported
               THEN \* line 14: the alert blocks the handler
                    /\ warnings' = warnings + 1
                    /\ ctrlPc' = "alertUnsupported"
                    /\ UNCHANGED << ctrlHandles, surfaceSent, sizeSent, toWorker >>
               ELSE \* lines 16-20
                    /\ ctrlHandles' = PostTransfer(ctrlHandles \cup {Surface}, {Surface})
                    /\ toWorker' = toWorker \o FirstMessages(Surface, detail)
                    /\ surfaceSent' = surfaceSent + 1
                    /\ sizeSent' = sizeSent + 1
                    /\ UNCHANGED << warnings, ctrlPc >>
       ELSE \* lines 19-20 only
            /\ toWorker' = Append(toWorker, SizeMessage(detail))
            /\ sizeSent' = sizeSent + 1
            /\ UNCHANGED << worker, workersCreated, workerState, hash, warnings,
                            ctrlPc, ctrlHandles, surfaceSent >>
    /\ UNCHANGED << supported, canvas, query, strayQueries, injected, ctrlErrors, timestamp >>
    /\ UNCHANGED rendererVars
    /\ UNCHANGED dataVars

\* index.js:22, the measurement forced by requestRedraw().
ForcedMeasure ==
    /\ redrawRequested
    /\ \E detail \in Details : MeasureListener(detail)

\* A measurement raised by the layout provider when the element's box changes.
NaturalMeasure ==
    /\ ~redrawRequested
    /\ \E detail \in Details : MeasureListener(detail)

\* index.js:26-29, the clock display, rescheduled on every run.
updateTimestamp ==
    /\ ctrlPc = "idle"
    /\ \E t \in Times : timestamp' = t
    /\ UNCHANGED << supported, canvas, query, strayQueries, injected, worker, workersCreated, ctrlPc, ctrlHandles,
                    ctrlErrors, warnings, measures, lastDetail, redrawRequested,
                    surfaceSent, sizeSent, toWorker, workerState, hash >>
    /\ UNCHANGED rendererVars
    /\ UNCHANGED dataVars

\* index.js:33-38, the click listener: alert() blocks the main thread.
AlertClick ==
    /\ ctrlPc = "idle"
    /\ ctrlPc' = "alertClick"
    /\ UNCHANGED << supported, canvas, query, strayQueries, injected, worker, workersCreated, ctrlHandles,
                    ctrlErrors, warnings, measures, lastDetail, redrawRequested,
                    timestamp, surfaceSent, sizeSent, toWorker, workerState, hash >>
    /\ UNCHANGED rendererVars
    /\ UNCHANGED dataVars

\* The user dismisses the dialog and the blocked handler resumes: the click
\* listener returns; the measure listener goes on to index.js:16 and calls
\* canvas.transferControlToOffscreen, which is not a function: a TypeError
\* ends the handler.
DismissAlert ==
    /\ ctrlPc # "idle"
    /\ ctrlPc' = "idle"
    /\ ctrlErrors' = IF ctrlPc = "alertUnsupported" THEN ctrlErrors + 1 ELSE ctrlErrors
    /\ UNCHANGED << supported, canvas, query, strayQueries, injected, worker, workersCreated, ctrlHandles,
                    warnings, measures, lastDetail, redrawRequested,
                    timestamp, surfaceSent, sizeSent, toWorker, workerState, hash >>
    /\ UNCHANGED rendererVars
    /\ UNCHANGED dataVars

\* Mutant: a 'message' listener on the worker asks for a redraw.
WorkerMessageRequestsRedraw ==
    /\ ctrlPc = "idle"
    /\ toMain > 0
    /\ toMain' = toMain - 1
    /\ redrawRequested' = TRUE
    /\ UNCHANGED << supported, canvas, query, strayQueries, injected, worker, workersCreated, ctrlPc,
                    ctrlHandles, ctrlErrors, warnings, measures, lastDetail,
                    timestamp, surfaceSent, sizeSent, toWorker, workerState, hash >>
    /\ UNCHANGED << context, xDomain, yDomain, frames, rafPending, workerErrors,
                    posted, frameSize >>
    /\ UNCHANGED dataVars

\* index.js:10-20: the main thread dispatches a message of the worker; no
\* 'message' listener is registered on the worker, so nothing handles it.
WorkerMessage ==
    /\ ctrlPc = "idle"
    /\ toMain > 0
    /\ toMain' = toMain - 1
    /\ UNCHANGED << supported, canvas, query, strayQueries, injected, toWorker, workerState >>
    /\ UNCHANGED ctrlVars
    /\ UNCHANGED << context, xDomain, yDomain, frames, rafPending, workerErrors,
                    posted, frameSize >>
    /\ UNCHANGED dataVars

\* --------------------------------------------------- Renderer (worker.js)
\* sin(t / 1e3) at the quarter periods.
Sin(t) == CASE t % 4 = 0 -> 0
            [] t % 4 = 1 -> 1
            [] t % 4 = 2 -> 0
            [] t % 4 = 3 -> -1

\* worker.js:66, ease = 5 * (0.51 + 0.49 * sin), in hundredths.
Ease(t) == 5 * (51 + 49 * Sin(t))

\* Mutant: the lower bound is not the negated ease.
BoundsFromZero(ease) == << 0, ease >>

\* worker.js:67-68, the bounds given to a scale.
Bounds(ease) == << -ease, ease >>

\* Mutant: render() does not schedule its next call.
NoRequestAnimationFrame(pending) == pending

\* worker.js:70, requestAnimationFrame(render).
RequestAnimationFrame(pending) == pending + 1

\* worker.js:45, the equality override given to the series.
equals(previous, current) == previous > 0

\* worker.js:47, the number of colours of d3.schemeAccent.
PaletteSize == 8

\* worker.js:47, d3.scaleOrdinal: an index that was never queried is appended
\* to the scale's domain.
ScaleDomain(domain, i) ==
    IF \E k \in 1..Len(domain) : domain[k] = i THEN domain ELSE Append(domain, i)

\* worker.js:47, colorScale(i) once i is in the domain: the colour at the
\* index's position in the domain, wrapped over the palette (a colour is its
\* position in the palette, from 0).
colorScale(domain, i) ==
    ((CHOOSE k \in 1..Len(domain) : domain[k] = i) - 1) % PaletteSize

\* The points whose colour is followed: the first MaxIndex of the dataset.
TrackedPoints == IF data < MaxIndex THEN data ELSE MaxIndex

\* Mutant: the fill pass walks the points from the last to the first.
FillIndicesDescending(n) == [k \in 1..n |-> n - k]

\* worker.js:54-57, the indices the fill pass gives to its value function,
\* in calling order.
FillIndices(n) == [k \in 1..n |-> k - 1]

\* The domain after the scale was queried for each of the (distinct) indices
\* in turn: those it did not hold are appended in the order of the queries.
QueryAll(domain, indices) ==
    domain \o SelectSeq(indices, LAMBDA i : ScaleDomain(domain, i) # domain)

\* worker.js:54-60, fillColor(program): the colour of every point is taken
\* from the scale.
FillPass == colorDomain' = QueryAll(colorDomain, FillIndices(TrackedPoints))

\* worker.js:69, series(data): the series sends the data to the GPU unless
\* the override reports it equal to what it sent last, and remembers it; the
\* decoration fills the points.
series ==
    /\ IF equals(previousData, data)
       THEN UNCHANGED << previousData, uploads >>
       ELSE /\ previousData' = data
            /\ uploads' = uploads + 1
    /\ FillPass

\* worker.js:65-72, render(), drawing with the context gl at time t, with
\* `pending` callbacks left and `inbox` messages already posted to the main
\* thread.
render(gl, t, pending, inbox) ==
    /\ frameSize' = << gl.viewport[3], gl.viewport[4] >>
    /\ xDomain' = Bounds(Ease(t))
    /\ yDomain' = Bounds(Ease(t))
    /\ frames' = frames + 1
    /\ rafPending' = RequestAnimationFrame(pending)
    /\ posted' = "frame"
    /\ toMain' = inbox + 1
    /\ series

\* worker.js:77, the WebGL context of a surface; its viewport starts as the
\* surface's size.
GetContext(offscreenCanvas) ==
    [canvas |-> offscreenCanvas,
     viewport |-> << 0, 0, offscreenCanvas.width, offscreenCanvas.height >>]

\* Mutant: the viewport is set from the surface's size before the resize.
ResizeStaleViewport(gl, width, height) ==
    [gl EXCEPT !.canvas.width = width, !.canvas.height = height,
               !.viewport = << 0, 0, gl.canvas.width, gl.canvas.height >>]

\* worker.js:84-86, resize the surface and set the viewport from it.
Resize(gl, width, height) ==
    LET resized == [gl EXCEPT !.canvas.width = width, !.canvas.height = height]
    IN  [resized EXCEPT !.viewport = << 0, 0, resized.canvas.width, resized.canvas.height >>]

\* worker.js:1-63, the worker script up to the registration of its listener.
WorkerStart ==
    /\ workerState = "starting"
    /\ workerState' = "listening"
    /\ posted' = "Rendering configured. Awaiting canvas..."
    /\ toMain' = toMain + 4
    /\ data' = DataLengthOf[hash]
    /\ UNCHANGED << previousData, uploads, colorDomain >>
    /\ UNCHANGED << supported, canvas, query, strayQueries, injected, toWorker >>
    /\ UNCHANGED ctrlVars
    /\ UNCHANGED << context, xDomain, yDomain, frames, rafPending, workerErrors,
                    frameSize >>

\* worker.js:75, the test of the surface field.
HasSurface(m) == Has(m, "offscreenCanvas")

\* Mutant: the size fields are looked at only when there is no surface.
HasSizeWithoutSurface(m) ==
    Has(m, "width") /\ Has(m, "height") /\ ~Has(m, "offscreenCanvas")

\* worker.js:82, the test of the size fields.
HasSize(m) == Has(m, "width") /\ Has(m, "height")

\* Mutant: the size branch calls render() as well.
OnMessageSizeRenders(m) ==
    LET gl == IF HasSurface(m) THEN GetContext(m.offscreenCanvas) ELSE context
    IN  /\ IF HasSurface(m) \/ (HasSize(m) /\ gl # NoContext)
           THEN \E t \in Times :
                    render(gl, t, rafPending, toMain + (IF HasSurface(m) THEN 1 ELSE 0))
           ELSE UNCHANGED << xDomain, yDomain, frames, rafPending, posted, toMain,
                             frameSize, previousData, uploads, colorDomain >>
        /\ IF HasSize(m)
           THEN IF gl = NoContext
                THEN /\ context' = gl
                     /\ workerErrors' = workerErrors + 1
                ELSE /\ context' = Resize(gl, m.width, m.height)
                     /\ UNCHANGED workerErrors
           ELSE /\ context' = gl
                /\ UNCHANGED workerErrors

\* worker.js:74-88, the 'message' listener.
OnMessage(m) ==
    LET gl == IF HasSurface(m) THEN GetContext(m.offscreenCanvas) ELSE context
    IN  /\ IF HasSurface(m)
           THEN \* line 76 posts 'Canvas received. Rendering...'
                \E t \in Times : render(gl, t, rafPending, toMain + 1)
           ELSE UNCHANGED << xDomain, yDomain, frames, rafPending, posted, toMain,
                             frameSize, previousData, uploads, colorDomain >>
        /\ IF HasSize(m)
           THEN IF gl = NoContext
                THEN \* line 84: gl is null, the assignment throws
                     /\ context' = gl
                     /\ workerErrors' = workerErrors + 1
                ELSE /\ context' = Resize(gl, m.width, m.height)
                     /\ UNCHANGED workerErrors
           ELSE /\ context' = gl
                /\ UNCHANGED workerErrors

\* The worker's event loop takes the oldest message.
Deliver ==
    /\ workerState = "listening"
    /\ toWorker # << >>
    /\ OnMessage(Head(toWorker))
    /\ toWorker' = Tail(toWorker)
    /\ UNCHANGED << supported, canvas, query, strayQueries, injected, workerState, data >>
    /\ UNCHANGED ctrlVars

\* Mutant: the frame callback is a main-thread callback, stalled by a dialog.
RenderFrameOnMainThread ==
    /\ ctrlPc = "idle"
    /\ rafPending > 0
    /\ frames < MaxFrames
    /\ \E t \in Times : render(context, t, rafPending - 1, toMain)
    /\ UNCHANGED << supported, canvas, query, strayQueries, injected, toWorker, workerState, context,
                    workerErrors, data >>
    /\ UNCHANGED ctrlVars

\* An animation-frame callback of the worker runs render().
RenderFrame ==
    /\ rafPending > 0
    /\ frames < MaxFrames
    /\ \E t \in Times : render(context, t, rafPending - 1, toMain)
    /\ UNCHANGED << supported, canvas, query, strayQueries, injected, toWorker, workerState, context,
                    workerErrors, data >>
    /\ UNCHANGED ctrlVars

\* ------------------------------------------------------- specifications
Next ==
    \/ ForcedMeasure
    \/ NaturalMeasure
    \/ updateTimestamp
    \/ AlertClick
    \/ DismissAlert
    \/ WorkerStart
    \/ Deliver
    \/ RenderFrame

Spec == Init /\ [][Next]_vars

\* The browser runs every queued task: a requested redraw is measured once
\* the main thread is free, a dialog is eventually dismissed, the worker
\* script runs, posted messages are handled and animation-frame callbacks
\* are called.
FairSpec ==
    /\ Spec
    /\ SF_vars(ForcedMeasure)
    /\ WF_vars(DismissAlert)
    /\ WF_vars(WorkerStart)
    /\ WF_vars(Deliver)
    /\ WF_vars(RenderFrame)

\* The page from any query string, with the dispatch of the worker's
\* messages on the main thread; the clock display and the alert button are
\* left out.
PageNext ==
    \/ ForcedMeasure
    \/ NaturalMeasure
    \/ DismissAlert
    \/ WorkerMessage
    \/ WorkerStart
    \/ Deliver
    \/ RenderFrame

PageSpec == PageInit /\ [][PageNext]_vars

\* worker.js:47, colorScale(i) called by another caller than the fill pass,
\* for any of the followed indices.
ColorQuery ==
    /\ workerState = "listening"
    /\ strayQueries < MaxStray
    /\ strayQueries' = strayQueries + 1
    /\ \E i \in 0..(MaxIndex - 1) : colorDomain' = ScaleDomain(colorDomain, i)
    /\ UNCHANGED << supported, canvas, query, injected, toWorker, workerState,
                    data, previousData, uploads >>
    /\ UNCHANGED ctrlVars
    /\ UNCHANGED rendererVars

\* The colour scale queried in any order: the page on a runtime with
\* transferable surfaces, opened without a query string, and a second caller
\* of the scale.
ColorInit == Start /\ supported /\ query = << >>

ColorNext ==
    \/ ForcedMeasure
    \/ WorkerStart
    \/ Deliver
    \/ RenderFrame
    \/ ColorQuery

ColorSpec == ColorInit /\ [][ColorNext]_vars

\* The surfaces another caller can transfer, and the messages it can post:
\* a surface, a size, or both in one message.
Surfaces ==
    { [id |-> i, width |-> d.width, height |-> d.height] :
          i \in {"canvas", "other"}, d \in Details }

Messages ==
    { SurfaceMessage(h) : h \in Surfaces }
    \cup { SizeMessage(d) : d \in Details }
    \cup { [offscreenCanvas |-> h, width |-> d.width, height |-> d.height] :
               h \in Surfaces, d \in Details }

\* worker.js:74, a message posted to the worker by another caller than
\* index.js.
PostAny ==
    /\ worker = "worker"
    /\ injected < MaxPosts
    /\ injected' = injected + 1
    /\ \E m \in Messages : toWorker' = Append(toWorker, m)
    /\ UNCHANGED << supported, canvas, query, strayQueries, workerState >>
    /\ UNCHANGED ctrlVars
    /\ UNCHANGED rendererVars
    /\ UNCHANGED dataVars

\* The message listener fed by any caller: the page on a runtime with
\* transferable surfaces, opened with the count 0, and a second sender.
RendererInit == Start /\ supported /\ query = << "?", "0" >>

RendererNext ==
    \/ ForcedMeasure
    \/ WorkerStart
    \/ Deliver
    \/ PostAny

RendererSpec == RendererInit /\ [][RendererNext]_vars

TypeOK ==
    /\ worker \in {"null", "worker"}
    /\ ctrlPc \in {"idle", "alertUnsupported", "alertClick"}
    /\ workerState \in {"none", "starting", "listening"}
    /\ measures \in 0..MaxMeasures
    /\ frames \in Nat
    /\ data \in Nat
    /\ toMain \in Nat
    /\ timestamp \in Times

\* --------------------------------------------------------------- claims
\* Who holds a usable reference to the drawing surface.
ControllerHolds == ctrlHandles # {}
RendererHolds == context # NoContext

\* A step in which the worker handled the oldest message.
Delivered == toWorker # << >> /\ toWorker' = Tail(toWorker)

\* C1 as stated: once a measurement event has been handled, the
\* surface-transfer message has been sent exactly once and exactly one
\* worker exists, whatever the runtime.
C1_TransferExactlyOnce ==
    (measures >= 1 /\ ctrlPc = "idle") => (surfaceSent = 1 /\ workersCreated = 1)

\* C1 amended: the surface-transfer message is sent at most once and at most
\* one worker is ever created; the first measurement event creates the
\* worker and, on a runtime with transferable surfaces, sends the transfer
\* (exactly once over the lifetime); on a runtime without them it is never
\* sent.
C1_TransferAtMostOnce ==
    /\ surfaceSent <= 1
    /\ workersCreated <= 1
    /\ (measures >= 1 /\ ctrlPc = "idle") =>
           /\ workersCreated = 1
           /\ surfaceSent = IF supported THEN 1 ELSE 0

C1_Witness ==
    /\ supported
    /\ measures = MaxMeasures
    /\ surfaceSent = 1
    /\ workersCreated = 1

\* C2: whenever a Ready Renderer handles a size update, the surface's size
\* and the viewport become exactly that update's width and height, and no
\* other step of a Ready Renderer changes them.
C2_LastWriteWins ==
    [][ context # NoContext =>
          IF Delivered /\ HasSize(Head(toWorker))
          THEN /\ context'.canvas.width = Head(toWorker).width
               /\ context'.canvas.height = Head(toWorker).height
               /\ context'.viewport = << 0, 0, Head(toWorker).width,
                                         Head(toWorker).height >>
          ELSE context' = context ]_vars

C2_Witness ==
    /\ context # NoContext
    /\ sizeSent = MaxMeasures
    /\ toWorker = << >>
    /\ context.canvas.width = lastDetail.width
    /\ context.canvas.height = lastDetail.height
    /\ context.viewport = << 0, 0, lastDetail.width, lastDetail.height >>
    /\ lastDetail # canvas

\* C3 as stated: a message carrying only a size, handled while no surface
\* has been received, is ignored: the Renderer's state does not change and
\* the handler throws nothing.
C3_SizeBeforeSurfaceIgnored ==
    [][ (Delivered /\ context = NoContext
            /\ HasSize(Head(toWorker)) /\ ~HasSurface(Head(toWorker)))
        => (context' = NoContext /\ frames' = frames /\ rafPending' = rafPending
            /\ workerErrors' = workerErrors) ]_vars

\* C4 as stated: on a runtime without transferable surfaces the measurement
\* handler warns the user, throws nothing and no rendering happens.
C4_UnsupportedWarnsNoCrash ==
    (~supported /\ measures >= 1) =>
        (warnings >= 1 /\ ctrlErrors = 0 /\ frames = 0)

\* C5: while the main thread is blocked in a dialog none of the Controller's
\* callbacks can run, and a Ready Renderer's frame callback is enabled
\* whether the main thread is blocked or not.
C5_RendererRunsWhileBlocked ==
    /\ ctrlPc # "idle" =>
           /\ ~ENABLED updateTimestamp
           /\ ~ENABLED ForcedMeasure
           /\ ~ENABLED NaturalMeasure
    /\ (context # NoContext /\ frames < MaxFrames) => ENABLED RenderFrame

C5_Witness ==
    /\ ctrlPc = "alertClick"
    /\ context # NoContext
    /\ frames >= 2
    /\ frames < MaxFrames

\* C6 as stated: every handled measurement event has sent exactly one size
\* message, carrying that event's width and height, and the first one has
\* sent the surface-transfer message before its size message.
C6_EveryMeasureSendsSize ==
    (measures >= 1 /\ ctrlPc = "idle") =>
        /\ sizeSent = measures
        /\ surfaceSent = 1
        /\ toWorker # << >> => toWorker[Len(toWorker)] = SizeMessage(lastDetail)
        /\ \A i \in 1..Len(toWorker) :
               HasSurface(toWorker[i]) => (i = 1 /\ Len(toWorker) >= 2
                                            /\ HasSize(toWorker[2]))

\* C7: no frame is drawn before a surface has been received, the Renderer
\* becomes Ready only by handling a message that carries a surface, every
\* render() leaves a callback scheduled, a Ready Renderer always has one
\* pending, and with fair animation-frame callbacks it keeps drawing (up to
\* the frame bound).
C7_RenderLoopRunsForever ==
    /\ [](frames > 0 => context # NoContext)
    /\ [][ (context = NoContext /\ context' # NoContext)
           => (Delivered /\ HasSurface(Head(toWorker))) ]_vars
    /\ [][ frames' # frames => (frames' = frames + 1 /\ rafPending' >= 1) ]_vars
    /\ [](context # NoContext => rafPending >= 1)
    /\ (context # NoContext ~> frames >= MaxFrames)

C7_Witness ==
    /\ context # NoContext
    /\ frames = MaxFrames
    /\ rafPending = 1

\* C8: the Controller holds no usable surface handle once the transfer has
\* been sent, and the Controller and the Renderer never hold it together.
C8_ExclusiveOwnership ==
    /\ surfaceSent >= 1 => ~ControllerHolds
    /\ ~(ControllerHolds /\ RendererHolds)

C8_Witness ==
    /\ surfaceSent = 1
    /\ RendererHolds
    /\ measures >= 2

\* C9: every message in the channel carries either the surface handle and
\* no size, or both a width and a height and no surface handle.
C9_OnePayloadPerMessage ==
    \A i \in 1..Len(toWorker) :
        \/ /\ HasSurface(toWorker[i])
           /\ ~Has(toWorker[i], "width")
           /\ ~Has(toWorker[i], "height")
        \/ /\ ~HasSurface(toWorker[i])
           /\ Has(toWorker[i], "width")
           /\ Has(toWorker[i], "height")

C9_Witness ==
    /\ Len(toWorker) >= 3
    /\ HasSurface(toWorker[1])
    /\ HasSize(toWorker[2])
    /\ HasSize(toWorker[3])

\* C10: on a runtime with transferable surfaces the redraw requested at
\* start-up leads, without any natural resize, to a first measurement
\* event, to the transfer of the surface, and to a Ready Renderer that has
\* drawn a frame.
C10_ForcedMeasureStartsRendering ==
    supported ~> (measures >= 1 /\ surfaceSent = 1 /\ context # NoContext /\ frames >= 1)

C10_Witness ==
    /\ supported
    /\ measures = 1
    /\ ~redrawRequested
    /\ context # NoContext
    /\ frames >= 1

\* C11: a query string that spells a non-negative integer N gives a dataset
\* of exactly N points; with no points the render loop, once started, keeps
\* a callback scheduled and the handler has thrown nothing; for every query
\* string the dataset length is a natural number.
C11_DatasetLength ==
    /\ data \in Nat
    /\ workerState = "listening" =>
           \A n \in 0..MaxCount : query = << "?" >> \o NatToString(n) => data = n
    /\ (data = 0 /\ context # NoContext) => (rafPending >= 1 /\ frames >= 1)
    /\ (data = 0 /\ supported) => workerErrors = 0

C11_Witness ==
    /\ query = << "?", "0" >>
    /\ workerState = "listening"
    /\ data = 0
    /\ frames = MaxFrames

\* C12 as stated: the point count is the default whenever the query string
\* is absent or is not a number.
C12_DefaultWhenAbsentOrNonNumeric ==
    (workerState = "listening" /\ (query = << >> \/ Number(substring1(query)).nan))
        => data = DefaultCount

\* C12 amended: the point count is the default (10000) when the query string
\* is absent; when it is present and not a number the dataset is empty.
C12_DefaultOnlyWhenAbsent ==
    workerState = "listening" =>
        /\ query = << >> => data = DefaultCount
        /\ (query # << >> /\ Number(substring1(query)).nan) => data = 0

C12_Witness ==
    /\ query = << >>
    /\ LocationSearch = << "?" >> \o NatToString(DefaultCount)
    /\ workerState = "listening"
    /\ data = DefaultCount
    /\ frames >= 1

\* The followed point i has been given a colour.
Assigned(i) == \E k \in 1..Len(colorDomain) : colorDomain[k] = i

\* Every followed point has the colour at its index modulo the palette size,
\* which is the colour of the point one palette further.
ColourWraps ==
    \A i \in 0..(TrackedPoints - 1) :
        /\ Assigned(i)
        /\ colorScale(colorDomain, i) = i % PaletteSize
        /\ (i + PaletteSize < TrackedPoints) =>
               /\ Assigned(i + PaletteSize)
               /\ colorScale(colorDomain, i) = colorScale(colorDomain, i + PaletteSize)

C14_RendererMessagesUnused ==
    /\ [][ toMain' < toMain =>
               (UNCHANGED ctrlVars /\ toWorker' = toWorker /\ workerState' = workerState) ]_vars
    /\ [][ toMain' > toMain => UNCHANGED ctrlVars ]_vars

C14_Witness ==
    /\ frames >= 2
    /\ posted = "frame"
    /\ toMain = 0
    /\ ctrlPc = "idle"

\* C15: once render() has run, both scales hold the same pair of bounds and
\* the upper bound is the negated lower bound.
C15_SymmetricBounds ==
    frames >= 1 =>
        /\ xDomain = yDomain
        /\ xDomain[2] = -xDomain[1]

C15_Witness ==
    /\ frames >= 2
    /\ xDomain = << -10, 10 >>
    /\ yDomain = << -10, 10 >>

\* C19 as stated: the dataset is generated once, while the worker script
\* starts and before any surface exists, and never changes afterwards; on
\* every render() after the first the series finds the data unchanged and
\* sends nothing to the GPU, whatever the point count.
C19_DataUploadedOnce ==
    /\ [][ data' # data => (workerState = "starting" /\ context = NoContext) ]_vars
    /\ [][ (frames' = frames + 1 /\ frames >= 1) => uploads' = uploads ]_vars

\* C16: a size-only message handled by a Ready Renderer changes nothing but
\* the surface's size and the viewport, handling it again changes nothing
\* more, it draws no frame and schedules no callback, and there is never
\* more than one pending animation-frame callback.
C16_SizeUpdateKeepsOneLoop ==
    /\ [][ (Delivered /\ context # NoContext /\ ~HasSurface(Head(toWorker))) =>
               /\ context' = Resize(context, Head(toWorker).width, Head(toWorker).height)
               /\ Resize(context', Head(toWorker).width, Head(toWorker).height) = context'
               /\ UNCHANGED << xDomain, yDomain, frames, rafPending, workerErrors,
                               posted, toMain, frameSize >>
               /\ UNCHANGED dataVars ]_vars
    /\ [](rafPending <= 1)

C16_Witness ==
    /\ context # NoContext
    /\ measures >= 2
    /\ sizeSent = measures
    /\ toWorker = << >>
    /\ frames = 1
    /\ rafPending = 1

\* C17: the handler acts on the surface field and on the size fields each
\* on its own: a message with a surface installs it and draws a frame with
\* that surface's own size, a message with a size and a context to apply it
\* to resizes; for a message carrying both, the frame is drawn before the
\* resize and the resize is applied to the surface the message brought.
C17_FieldsHandledIndependently ==
    [][ Delivered =>
          LET m == Head(toWorker)
              surface == Has(m, "offscreenCanvas")
              size == Has(m, "width") /\ Has(m, "height")
          IN  /\ surface =>
                     /\ frames' = frames + 1
                     /\ rafPending' = rafPending + 1
                     /\ frameSize' = << m.offscreenCanvas.width, m.offscreenCanvas.height >>
                     /\ context'.canvas.id = m.offscreenCanvas.id
              /\ ~surface => (frames' = frames /\ rafPending' = rafPending)
              /\ (surface /\ ~size) => context' = GetContext(m.offscreenCanvas)
              /\ (surface /\ size) =>
                     /\ context' = Resize(GetContext(m.offscreenCanvas), m.width, m.height)
                     /\ workerErrors' = workerErrors
              /\ (~surface /\ size /\ context # NoContext) =>
                     context' = Resize(context, m.width, m.height) ]_vars

C17_Witness ==
    /\ injected = 1
    /\ toWorker = << >>
    /\ frames = 2
    /\ context # NoContext
    /\ context.canvas.id = "other"
    /\ frameSize # << context.canvas.width, context.canvas.height >>

\* C18: on a runtime without transferable surfaces the warning is shown once
\* however many measurement events are handled, one worker is created and no
\* more, no surface is ever transferred, and the Renderer never draws a
\* frame or schedules a callback.
C18_UnsupportedReportedOnce ==
    ~supported =>
        /\ warnings <= 1
        /\ measures >= 1 => (warnings = 1 /\ workersCreated = 1)
        /\ workersCreated <= 1
        /\ surfaceSent = 0
        /\ ctrlHandles = {}
        /\ context = NoContext
        /\ frames = 0
        /\ rafPending = 0

C18_Witness ==
    /\ ~supported
    /\ measures = MaxMeasures
    /\ ctrlPc = "idle"
    /\ warnings = 1
    /\ workersCreated = 1

\* C20: on a runtime with transferable surfaces the surface message is ahead
\* of every size message in the channel, a Renderer without a context finds
\* the surface message first, every size message is handled with a context
\* set, and the handler never throws.
C20_SurfaceBeforeSizes ==
    /\ [](supported => workerErrors = 0)
    /\ [](supported => \A i \in 1..Len(toWorker) : HasSurface(toWorker[i]) => i = 1)
    /\ []((supported /\ context = NoContext /\ toWorker # << >>)
            => HasSurface(Head(toWorker)))
    /\ [][ (supported /\ Delivered /\ HasSize(Head(toWorker)))
            => (context' # NoContext /\ workerErrors' = workerErrors) ]_vars

C20_Witness ==
    /\ supported
    /\ measures = MaxMeasures
    /\ sizeSent = MaxMeasures
    /\ toWorker = << >>
    /\ workerErrors = 0
    /\ context # NoContext
    /\ frames = MaxFrames

====
